---- MODULE Spec2Model ----
(***************************************************************************)
(* Outbound mail delivery of the YAMN remailer with Tor integration        *)
(* (src/mail.go): startup validation of the SOCKS proxy, the pool file     *)
(* lifecycle (mailPoolFile), the choice of the delivery sink (mailBytes),  *)
(* the transport policy (shouldUseTor), the host resolver (mxLookup) and   *)
(* the SMTP session driven by smtpRelay.                                   *)
(*                                                                         *)
(* Strings are sequences of tokens.  A token is a piece of text that holds *)
(* neither "@" nor ".onion" unless it is exactly that piece, so that       *)
(* strings.Contains / HasSuffix / Split on "@" and ".onion" are computed   *)
(* on the token sequence exactly as Go computes them on the text.          *)
(***************************************************************************)
EXTENDS Integers, Sequences, FiniteSets, TLC

\* ------------------------------------------------------------------ bounds

\* Longest To header (number of addresses) of a pool entry.
MaxRcpt == 2

\* cfg.Pool.MaxAge, the configured maximum pool age in days.
PoolMaxAge == 1

\* The firings of the circuit reset timer are counted up to this number,
\* then from 0 again.
MaxFirings == 1

\* Direct calls of startCircuitResetTimer that are counted.
MaxStarts == 2

\* Most header lines, other than To, Cc and the pooled date, of a message
\* that is assembled on its own.
MaxHeaderLines == 2

\* ------------------------------------------------------------------ strings

\* strings.Contains(s, ".onion") and friends, on token sequences.
Contains(s, tok) == \E i \in 1..Len(s) : s[i] = tok

HasSuffix(s, tok) == Len(s) >= 1 /\ s[Len(s)] = tok

\* strings.HasSuffix(host, ".onion."): the suffix with the DNS root dot.
HasSuffixOnionDot(s) == Len(s) >= 2 /\ s[Len(s) - 1] = ".onion" /\ s[Len(s)] = "."

\* strings.HasPrefix(h, "Yamn-"), on the tokens of a header name.
HasPrefix(s, tok) == Len(s) >= 1 /\ s[1] = tok

\* Positions of "@" in an address.
AtPositions(s) == {i \in 1..Len(s) : s[i] = "@"}

\* ------------------------------------------------------------------ inputs

AddrPlain      == <<"u", "@", "x.com">>
AddrOnion      == <<"u", "@", "h", ".onion">>
AddrOnionInfix == <<"u", "@", "h", ".onion", ".com">>
AddrOnionLocal == <<"u", ".onion", "@", "x.com">>
AddrNoAt       == <<"u">>
AddrTwoAt      == <<"u", "@", "v", "@", "x.com">>
AddrTwoAtOnion == <<"u", "@", "v", "@", "h", ".onion">>
AddrNoDomain   == <<"u", "@">>

\* Every address the model knows.
Addresses ==
    {AddrPlain, AddrOnion, AddrOnionInfix, AddrOnionLocal, AddrNoAt, AddrTwoAt,
     AddrTwoAtOnion, AddrNoDomain}

RECURSIVE SeqsUpTo(_, _)
\* All sequences over S of length 0..n.
SeqsUpTo(S, n) ==
    IF n = 0 THEN {<<>>}
    ELSE LET shorter == SeqsUpTo(S, n - 1)
         IN  shorter \cup {Append(s, x) : s \in {t \in shorter : Len(t) = n - 1}, x \in S}

\* Address lists a parsed To header can hold: net/mail yields addresses with
\* an "@"; a quoted local part may carry a second "@".
ToLists ==
    (SeqsUpTo({AddrPlain, AddrOnion}, MaxRcpt) \ {<<>>})
        \cup {<<AddrOnionInfix>>, <<AddrTwoAt>>}

CcLists == {<<AddrOnion>>}

\* Recipient lists handed to mailBytes by the rest of the remailer that no
\* pool entry produces.
DirectLists == {<<>>, <<AddrNoAt>>}

\* MX host names as DNS returns them (fully qualified, with the root dot).
MxPlain == <<"mx.x.com", ".">>
MxOnion == <<"h", ".onion", ".">>

\* What net.LookupMX can answer.
DnsOutcomes ==
    {[err |-> TRUE, records |-> <<>>]}
        \cup {[err |-> FALSE, records |-> r] :
                 r \in {<<>>, <<MxPlain>>, <<MxOnion>>, <<MxOnion, MxPlain>>}}

RelayPlain == <<"smtp.example.net">>
RelayOnion == <<"r", ".onion">>
\* A host of the public Internet whose name holds ".onion" further in.
RelayOnionInfix == <<"r", ".onion", ".example.net">>

\* A header that holds an address list: missing, not parsable by
\* net/mail.AddressList, or a list of addresses.
NoHeader  == [kind |-> "absent", addrs |-> <<>>]
BadHeader == [kind |-> "bad", addrs |-> <<>>]
ListHeader(l) == [kind |-> "list", addrs |-> l]

\* The Yamn-Pooled-Date header: missing, not in the short date format, or a
\* date that daysAgo finds age days old.
NoDate  == [kind |-> "absent", age |-> 0]
BadDate == [kind |-> "bad", age |-> 0]
DateAged(n) == [kind |-> "date", age |-> n]

PooledDates == {NoDate, BadDate} \cup {DateAged(n) : n \in 0..(PoolMaxAge + 1)}

\* The text of any other header; "" is what Header.Get answers for a header
\* that is missing.
Text(t) == [kind |-> "text", text |-> t]
EmptyText == Text("")

\* The text "name <addr>" of a From header, as net/mail parses it and as
\* parseFrom formats it; name is "" when the address has no display name.
FromText(name, addr) == [kind |-> "from", name |-> name, addr |-> addr]

\* Header names, as tokens: "Yamn-" is the prefix of the internal headers.
NameTo == <<"To">>
NameCc == <<"Cc">>
NameFrom == <<"From">>
NameDate == <<"Date">>
NameMessageId == <<"Message-Id">>
NamePooledDate == <<"Yamn-", "Pooled-Date">>

\* A header line "name: value" of a file or of a payload.
Line(name, value) == [name |-> name, value |-> value]

\* Header lines a message can carry besides To, Cc and the pooled date:
\* internal headers in the case the file has them in, one of them with a
\* space in its name, a header that only holds the prefix further in, and
\* a header that comes twice.
LineSubject == Line(<<"Subject">>, Text("s"))
LineReceived1 == Line(<<"Received">>, Text("r1"))
LineReceived2 == Line(<<"Received">>, Text("r2"))
LineInternal == Line(<<"yamn-", "Foo">>, Text("x"))
LineInternalSpaced == Line(<<"yamn-", "Foo Bar">>, Text("x"))
LineInfix == Line(<<"X-", "Yamn-", "Id">>, Text("y"))
LineFromNamed == Line(NameFrom, FromText("N", "a@b"))
LineFromBare == Line(NameFrom, FromText("", "a@b"))

HeaderLines ==
    {LineSubject, LineReceived1, LineReceived2, LineInternal, LineInternalSpaced, LineInfix}

\* The other header lines of the pool files: by the pooled date, so that
\* every kind of From header is mailed.
PoolHeaderLines(d) ==
    CASE d.kind = "absent" -> <<LineSubject, LineFromNamed, LineInternal, LineInternalSpaced>>
      [] d.kind = "date" /\ d.age = 0 -> <<LineFromBare, LineInfix>>
      [] OTHER -> <<LineReceived1, LineInternal>>

\* The file that cannot be opened, the file that is no message, and the
\* messages a pool file can hold.
UnopenableFile ==
    [open |-> FALSE, parse |-> FALSE, pooled |-> NoDate, to |-> NoHeader, cc |-> NoHeader,
     hdr |-> <<>>, body |-> "none"]
UnparsableFile ==
    [open |-> TRUE, parse |-> FALSE, pooled |-> NoDate, to |-> NoHeader, cc |-> NoHeader,
     hdr |-> <<>>, body |-> "none"]
\* The To and Cc headers of the messages: every To with no Cc and with a
\* Cc list, and the unparsable Cc where To gives no recipient.
HeaderPairs ==
    LET tos == {NoHeader, BadHeader} \cup {ListHeader(l) : l \in ToLists}
    IN  (tos \X ({NoHeader} \cup {ListHeader(l) : l \in CcLists}))
            \cup ({NoHeader, BadHeader} \X {BadHeader})

\* The headers of the messages that carry a pooled date.
DatedHeaderPairs ==
    {<<NoHeader, NoHeader>>, <<ListHeader(<<AddrPlain>>), NoHeader>>,
     <<ListHeader(<<AddrPlain>>), ListHeader(<<AddrOnion>>)>>}

Message(d, h) ==
    [open |-> TRUE, parse |-> TRUE, pooled |-> d, to |-> h[1], cc |-> h[2],
     hdr |-> PoolHeaderLines(d), body |-> "body"]

\* Messages that are assembled on their own: every sequence of header lines
\* up to the bound, with a To header.
AssembleFiles ==
    {[Message(NoDate, <<ListHeader(<<AddrPlain>>), NoHeader>>) EXCEPT !.hdr = l] :
         l \in SeqsUpTo(HeaderLines, MaxHeaderLines)}

MessageFiles ==
    {Message(NoDate, h) : h \in HeaderPairs}
        \cup {Message(d, h) : d \in PooledDates \ {NoDate}, h \in DatedHeaderPairs}
PoolFiles == {UnopenableFile, UnparsableFile} \cup MessageFiles

\* Nothing read: no call of mailPoolFile is under way.
NoMsg == UnopenableFile

\* A payload: the header lines and the body; the order of the lines in
\* the bytes is not kept (see assemble).
NoPayload == [lines |-> {}, body |-> "none"]

\* The payload of a mailBytes call made by the rest of the remailer.
DirectPayload == [lines |-> {Line(NameTo, ListHeader(<<AddrNoAt>>))}, body |-> "direct"]

\* ------------------------------------------------------------------ config

\* cfg.Tor: a pointer, nil when the configuration has no tor section.  The
\* circuit reset interval is read only when Tor is enabled.
TorNil == [nil |-> TRUE, Enabled |-> FALSE, Required |-> FALSE, CircuitReset |-> 0]
TorOff == [nil |-> FALSE, Enabled |-> FALSE, Required |-> FALSE, CircuitReset |-> 0]
TorOn  == [nil |-> FALSE, Enabled |-> TRUE, Required |-> FALSE, CircuitReset |-> 0]
TorConfigs ==
    {TorNil}
        \cup {[TorOff EXCEPT !.Required = r] : r \in BOOLEAN}
        \cup {[TorOn EXCEPT !.Required = r, !.CircuitReset = c] :
                 r \in BOOLEAN, c \in {0, 1}}

\* cfg.Mail.Pipe, the command of the external pipe: not set, white space
\* only, or a command with an argument.
PipeNone == ""
PipeBlank == " "
PipeCommand == "/usr/sbin/sendmail -t"

\* strings.Fields: the fields of the string, white space taken off.
Fields(str) ==
    CASE str = PipeCommand -> <<"/usr/sbin/sendmail", "-t">>
      [] OTHER -> <<>>

\* cfg.Mail; Username and Password are TRUE when the string is not "".
\* The configurations checked are those that differ in the flags of the
\* routing (transport, resolver, sink) with TLS and credentials off and a
\* relay of the public Internet, and those that differ in the flags of the
\* SMTP session and in the relay, with the SMTP sink.  The circuit reset
\* timer runs beside the deliveries of the configurations with every flag
\* of the routing off.
RoutingConfigs ==
    {c \in [Tor : TorConfigs,
            Mail : [ForceTorSMTP : BOOLEAN, OnionRelay : BOOLEAN, MXRelay : BOOLEAN,
                    Outfile : BOOLEAN, Pipe : {PipeNone, PipeBlank, PipeCommand},
                    Sendmail : BOOLEAN,
                    UseTLS : {FALSE}, DisableTLSOnion : {FALSE},
                    Username : {FALSE}, Password : {FALSE}, CustomFrom : {FALSE},
                    SMTPRelay : {RelayPlain}, SMTPPort : {587}]] :
         (c.Tor.CircuitReset > 0)
             => /\ ~c.Mail.ForceTorSMTP /\ ~c.Mail.OnionRelay /\ ~c.Mail.MXRelay
                /\ ~c.Mail.Outfile /\ c.Mail.Pipe = PipeNone /\ ~c.Mail.Sendmail}

\* DisableTLSOnion is read only where UseTLS is set; a single credential
\* is checked with TLS off.
SessionConfigs ==
    {c \in [Tor : {TorOff, TorOn},
            Mail : [ForceTorSMTP : {FALSE}, OnionRelay : {FALSE}, MXRelay : BOOLEAN,
                    Outfile : {FALSE}, Pipe : {PipeNone}, Sendmail : {FALSE},
                    UseTLS : BOOLEAN, DisableTLSOnion : BOOLEAN,
                    Username : BOOLEAN, Password : BOOLEAN, CustomFrom : {FALSE},
                    SMTPRelay : {RelayPlain, RelayOnion}, SMTPPort : {587}]] :
         /\ c.Mail.DisableTLSOnion => c.Mail.UseTLS
         /\ c.Mail.UseTLS => (c.Mail.Username <=> c.Mail.Password)}

\* The configurations that keep the From header of the message, with the
\* file drop as the sink.
HeaderConfigs ==
    [Tor : {TorNil, TorOn},
     Mail : [ForceTorSMTP : {FALSE}, OnionRelay : {FALSE}, MXRelay : {FALSE},
             Outfile : {TRUE}, Pipe : {PipeNone}, Sendmail : {FALSE},
             UseTLS : {FALSE}, DisableTLSOnion : {FALSE},
             Username : {FALSE}, Password : {FALSE}, CustomFrom : {TRUE},
             SMTPRelay : {RelayPlain}, SMTPPort : {587}]]

\* The configurations with TLS wanted and a relay that only holds ".onion"
\* in its name, or that the MX lookup may replace by a hidden-service host,
\* with both credentials or none.
TlsConfigs ==
    {c \in [Tor : {TorOff},
            Mail : [ForceTorSMTP : {FALSE}, OnionRelay : BOOLEAN, MXRelay : BOOLEAN,
                    Outfile : {FALSE}, Pipe : {PipeNone}, Sendmail : {FALSE},
                    UseTLS : {TRUE}, DisableTLSOnion : BOOLEAN,
                    Username : BOOLEAN, Password : BOOLEAN, CustomFrom : {FALSE},
                    SMTPRelay : {RelayOnionInfix}, SMTPPort : {587}]] :
         c.Mail.Username <=> c.Mail.Password}

Configs == RoutingConfigs \cup SessionConfigs \cup HeaderConfigs \cup TlsConfigs

\* cfg.Mail.OutboundName and cfg.Mail.OutboundAddy.
OutboundName == "Anonymous"
OutboundAddy == "remailer@domain"

\* ------------------------------------------------------------------ state

VARIABLES
    cfg,                \* the configuration, read-only after load
    pc,                 \* where the process is
    proxyCheck,         \* main's validation of the proxy: "none", "skipped", "ok", "failed"
    timers,             \* circuit reset timers pending
    firings,            \* firings of the circuit reset timer so far, modulo MaxFirings + 1
    callbacks,          \* callbacks of the timer that run and have not armed the next yet
    caller,             \* the entry point of the delivery under way
    msg,                \* the pool file as mailPoolFile read it
    sendTo,             \* the recipients of the delivery
    delFlag,            \* mailPoolFile's delFlag
    err,                \* the error of the call that returned
    sinks,              \* the sinks the payload was handed to, in order
    payload,            \* the payload handed to mailBytes
    useTor,             \* smtpRelay's transport decision
    relay,              \* smtpRelay's relay host
    port,               \* smtpRelay's port
    dnsQueries,         \* domains asked of public DNS in this delivery
    dials,              \* connections dialed in this delivery
    log,                \* calls made on the SMTP client, with their outcome
    conn,               \* the connection: "none", "open", "closed"
    ext,                \* what the server advertised, as far as it was asked
    dnsAnswer           \* what net.LookupMX answered to a direct call of mxLookup

startupVars == <<proxyCheck, timers, firings, callbacks>>
frameVars == <<caller, msg, sendTo, delFlag, err, sinks, payload>>
smtpVars == <<useTor, relay, port, dnsQueries, dials, log, conn, ext>>
vars == <<cfg, pc, startupVars, frameVars, smtpVars, dnsAnswer>>

\* ------------------------------------------------------------------ pure code

\* headToAddy: the addresses of a header; none when the header is missing
\* or AddressList fails on it.
headToAddy(h) == IF h.kind = "list" THEN h.addrs ELSE <<>>

\* The name holds only bytes of a header field name (letters, digits and
\* the marks of a token): none of its tokens holds a space.
validHeaderFieldName(name) == \A i \in 1..Len(name) : name[i] # "Foo Bar"

\* textproto.CanonicalMIMEHeaderKey on the tokens of a name: the first
\* letter and every letter after a hyphen in upper case, the rest in lower;
\* a name that holds a byte no field name can hold is returned as it is.
CanonicalToken(t) ==
    CASE t = "yamn-" -> "Yamn-"
      [] t = "YAMN-" -> "Yamn-"
      [] OTHER -> t

CanonicalMIMEHeaderKey(name) ==
    IF validHeaderFieldName(name)
    THEN [i \in 1..Len(name) |-> CanonicalToken(name[i])]
    ELSE name

\* A mail.Header is a map from the name to the values; it is kept as the
\* sequence of its entries in the order a range loop yields them.
Entry(name, values) == [name |-> name, values |-> values]

\* Where the map holds the key.
HeaderIndex(h, key) == {i \in 1..Len(h) : h[i].name = key}

\* One more header line read: the value is added under the canonical key.
AddLine(h, line) ==
    LET key == CanonicalMIMEHeaderKey(line.name)
    IN  IF HeaderIndex(h, key) = {}
        THEN Append(h, Entry(key, <<line.value>>))
        ELSE [i \in 1..Len(h) |->
                 IF h[i].name = key
                 THEN Entry(key, Append(h[i].values, line.value))
                 ELSE h[i]]

RECURSIVE ReadHeader(_)
\* The header block of a message as net/mail reads it, line after line.
ReadHeader(lines) ==
    IF lines = <<>> THEN <<>>
    ELSE AddLine(ReadHeader(SubSeq(lines, 1, Len(lines) - 1)), lines[Len(lines)])

\* mail.ReadMessage of a file that parses: the header and the body.
ReadMessage(f) ==
    [header |->
         (IF f.pooled.kind = "absent" THEN <<>> ELSE <<Entry(NamePooledDate, <<f.pooled>>)>>)
             \o (IF f.to.kind = "absent" THEN <<>> ELSE <<Entry(NameTo, <<f.to>>)>>)
             \o (IF f.cc.kind = "absent" THEN <<>> ELSE <<Entry(NameCc, <<f.cc>>)>>)
             \o ReadHeader(f.hdr),
     body |-> f.body]

\* Header.Get(key): the first value under the canonical key, "" if none.
HeaderGet(h, key) ==
    LET idx == HeaderIndex(h, CanonicalMIMEHeaderKey(key))
    IN  IF idx = {} THEN EmptyText
        ELSE LET values == h[CHOOSE i \in idx : TRUE].values
             IN  IF values = <<>> THEN EmptyText ELSE values[1]

\* msg.Header[key] = values
HeaderSet(h, key, values) ==
    IF HeaderIndex(h, key) = {} THEN Append(h, Entry(key, values))
    ELSE [i \in 1..Len(h) |-> IF h[i].name = key THEN Entry(key, values) ELSE h[i]]

\* delete(msg.Header, key)
HeaderDelete(h, key) == SelectSeq(h, LAMBDA e : e.name # key)

\* parseFrom: the From header mailPoolFile sets, from the first address of
\* the From header of the message.
parseFrom(h) ==
    LET from == HeaderGet(h, NameFrom)
    IN  IF from.kind # "from" THEN <<FromText(OutboundName, OutboundAddy)>>
        ELSE IF cfg.Mail.CustomFrom THEN <<FromText(from.name, from.addr)>>
        ELSE IF from.name = "" THEN <<FromText(OutboundName, OutboundAddy)>>
        ELSE <<FromText(from.name, OutboundAddy)>>

\* messageID(), an opaque value; time.Now() in the format of RFC 5322.
messageID == Text("message-id")
Now == Text("now")

\* assemble's test of a header name: everything but the internal headers.
Visible(e) == ~HasPrefix(e.name, "Yamn-")

\* assemble(msg): one line "name: value" for every header that is not
\* internal, with the value Header.Get answers, then the body.  The lines
\* are written in the order range yields the keys of the map, which Go
\* leaves unspecified and changes from one loop to the next: the payload
\* holds the lines without an order, and Orders gives the orders in which
\* they can stand in the bytes.
assemble(m) ==
    LET kept == SelectSeq(m.header, Visible)
    IN  [lines |-> {Line(kept[i].name, HeaderGet(m.header, kept[i].name)) :
                       i \in 1..Len(kept)},
         body |-> m.body]

\* Every order in which range can yield the lines of a payload.
Orders(lines) ==
    {s \in [1..Cardinality(lines) -> lines] :
         \A i, j \in 1..Cardinality(lines) : (s[i] = s[j]) => (i = j)}

\* The message mailPoolFile hands to assemble: the pooled date deleted,
\* Date, Message-Id and From set.
PoolMessage(f) ==
    LET m == ReadMessage(f)
        h1 == IF f.pooled.kind = "absent" THEN m.header
              ELSE HeaderDelete(m.header, NamePooledDate)
        h2 == HeaderSet(h1, NameDate, <<Now>>)
        h3 == HeaderSet(h2, NameMessageId, <<messageID>>)
        h4 == HeaderSet(h3, NameFrom, parseFrom(h3))
    IN  [header |-> h4, body |-> m.body]

\* splitEmailAddress: err is "nil" or the error; strings.Split yields one
\* component more than there are "@".
splitEmailAddress(addy) ==
    IF ~Contains(addy, "@")
    THEN [err |-> "no @", name |-> <<>>, domain |-> <<>>]
    ELSE IF Cardinality(AtPositions(addy)) + 1 # 2
         THEN [err |-> "malformed", name |-> <<>>, domain |-> <<>>]
         ELSE LET at == CHOOSE i \in AtPositions(addy) : TRUE
              IN  [err |-> "nil",
                   name |-> SubSeq(addy, 1, at - 1),
                   domain |-> SubSeq(addy, at + 1, Len(addy))]

RECURSIVE FirstMx(_, _)
\* The loop over the MX records: the first record that is not skipped, ""
\* (the empty string) when none is left.
FirstMx(records, onionRelay) ==
    IF records = <<>> THEN <<>>
    ELSE IF ~onionRelay /\ HasSuffixOnionDot(Head(records))
         THEN FirstMx(Tail(records), onionRelay)
         ELSE Head(records)

\* Mutant: a hidden-service domain is returned at once only when the onion
\* relay is set; otherwise DNS is asked about it.
mxLookupOnionIfRelay(email, dns) ==
    LET emailParts == splitEmailAddress(email)
    IN  IF emailParts.err # "nil"
        THEN [relay |-> <<>>, err |-> emailParts.err, queried |-> <<>>]
        ELSE IF HasSuffix(emailParts.domain, ".onion") /\ cfg.Mail.OnionRelay
        THEN [relay |-> emailParts.domain, err |-> "nil", queried |-> <<>>]
        ELSE IF dns.err
        THEN [relay |-> emailParts.domain, err |-> "nil",
              queried |-> <<emailParts.domain>>]
        ELSE LET mx == FirstMx(dns.records, cfg.Mail.OnionRelay)
             IN  [relay |-> IF mx = <<>> THEN emailParts.domain ELSE mx,
                  err |-> "nil",
                  queried |-> <<emailParts.domain>>]

\* Mutant: a failed DNS lookup is returned as an error.
mxLookupFailsOnDnsError(email, dns) ==
    LET emailParts == splitEmailAddress(email)
    IN  IF emailParts.err # "nil"
        THEN [relay |-> <<>>, err |-> emailParts.err, queried |-> <<>>]
        ELSE IF HasSuffix(emailParts.domain, ".onion")
        THEN [relay |-> emailParts.domain, err |-> "nil", queried |-> <<>>]
        ELSE IF dns.err
        THEN [relay |-> <<>>, err |-> "dns", queried |-> <<emailParts.domain>>]
        ELSE LET mx == FirstMx(dns.records, cfg.Mail.OnionRelay)
             IN  [relay |-> IF mx = <<>> THEN emailParts.domain ELSE mx,
                  err |-> "nil",
                  queried |-> <<emailParts.domain>>]

\* mxLookup(email), dns being what net.LookupMX answers when it is asked:
\* the relay, the error, and the domains asked of DNS.
mxLookup(email, dns) ==
    LET emailParts == splitEmailAddress(email)
    IN  IF emailParts.err # "nil"
        THEN [relay |-> <<>>, err |-> emailParts.err, queried |-> <<>>]
        ELSE IF HasSuffix(emailParts.domain, ".onion")
        THEN [relay |-> emailParts.domain, err |-> "nil", queried |-> <<>>]
        ELSE IF dns.err
        THEN [relay |-> emailParts.domain, err |-> "nil",
              queried |-> <<emailParts.domain>>]
        ELSE LET mx == FirstMx(dns.records, cfg.Mail.OnionRelay)
             IN  [relay |-> IF mx = <<>> THEN emailParts.domain ELSE mx,
                  err |-> "nil",
                  queried |-> <<emailParts.domain>>]

\* cfg.Tor == nil || !cfg.Tor.Enabled, negated.
TorEnabled == ~cfg.Tor.nil /\ cfg.Tor.Enabled

\* Mutant: the hidden-service rule gives way to the onion-relay flag.
shouldUseTorIfOnionRelay(address) ==
    IF ~TorEnabled THEN FALSE
    ELSE IF Contains(address, ".onion") /\ cfg.Mail.OnionRelay THEN TRUE
    ELSE IF cfg.Mail.ForceTorSMTP THEN TRUE
    ELSE FALSE

\* Mutant: only the end of the address is looked at.
shouldUseTorSuffixOnly(address) ==
    IF ~TorEnabled THEN FALSE
    ELSE IF HasSuffix(address, ".onion") THEN TRUE
    ELSE IF cfg.Mail.ForceTorSMTP THEN TRUE
    ELSE FALSE

\* shouldUseTor(address)
shouldUseTor(address) ==
    IF ~TorEnabled THEN FALSE
    ELSE IF Contains(address, ".onion") THEN TRUE
    ELSE IF cfg.Mail.ForceTorSMTP THEN TRUE
    ELSE FALSE

\* smtpRelay's loop over the recipients: the transport decision of the batch.
BatchUsesTor(recipients) ==
    \E i \in 1..Len(recipients) : shouldUseTor(recipients[i])

\* Mutant: the MX lookup is made for a session through Tor too.
WantsMxLookupAnyTransport(recipients, tor) ==
    /\ cfg.Mail.MXRelay
    /\ Len(recipients) = 1
    /\ ~Contains(recipients[1], ".onion")

\* smtpRelay's condition for the MX lookup.
WantsMxLookup(recipients, tor) ==
    /\ cfg.Mail.MXRelay
    /\ Len(recipients) = 1
    /\ ~Contains(recipients[1], ".onion")
    /\ ~tor

\* smtpRelay's shouldUseTLS for a relay host.
shouldUseTLS(host) ==
    IF Contains(host, ".onion") /\ cfg.Mail.DisableTLSOnion THEN FALSE
    ELSE cfg.Mail.UseTLS

\* Mutant: a username is enough.
HasUsername == cfg.Mail.Username

\* smtpRelay's condition on the credentials.
HasCredentials == cfg.Mail.Username /\ cfg.Mail.Password

\* Mutant: an entry one day over the maximum age is still mailed.
ExpiredOneDayLate(age) == age > PoolMaxAge + 1

\* Mutant: an entry that has just reached the maximum age is refused.
ExpiredAtMaxAge(age) == age >= PoolMaxAge

\* mailPoolFile's test of the age of a parsed pooled date.
Expired(age) == age > PoolMaxAge

\* validateTorConfig, proxyUp telling whether the SOCKS proxy accepts a TCP
\* connection: the error, and whether the proxy was probed.
validateTorConfig(proxyUp) ==
    IF ~TorEnabled THEN [err |-> "nil", probed |-> FALSE]
    ELSE [err |-> IF proxyUp THEN "nil" ELSE "proxy", probed |-> TRUE]

\* startCircuitResetTimer: the timers pending after the call, t pending
\* before it.  time.AfterFunc arms a new timer; an old one is not stopped.
startCircuitResetTimer(t) ==
    IF cfg.Tor.nil \/ ~cfg.Tor.Enabled \/ cfg.Tor.CircuitReset <= 0 THEN t
    ELSE t + 1

\* ------------------------------------------------------------------ frames

NoExt == [tls |-> "unasked", auth |-> "unasked"]

\* No delivery under way.
FrameIdle ==
    /\ caller = "none"
    /\ msg = NoMsg
    /\ sendTo = <<>>
    /\ delFlag = FALSE
    /\ err = "nil"
    /\ sinks = <<>>
    /\ payload = NoPayload

SmtpIdle ==
    /\ useTor = FALSE
    /\ relay = <<>>
    /\ port = 0
    /\ dnsQueries = <<>>
    /\ dials = <<>>
    /\ log = <<>>
    /\ conn = "none"
    /\ ext = NoExt

Init ==
    /\ cfg \in Configs
    /\ pc = "main"
    /\ proxyCheck = "none"
    /\ timers = 0
    /\ firings = 0
    /\ callbacks = 0
    /\ FrameIdle
    /\ SmtpIdle
    /\ dnsAnswer = <<>>

\* Calls of op made so far.
Issued(op) == {i \in 1..Len(log) : log[i].op = op}

\* A call on the SMTP client and how it ended; RCPT is called with the next
\* recipient of the loop.
Call(op, ok) ==
    [op |-> op, ok |-> ok,
     arg |-> IF op = "Rcpt" THEN sendTo[Cardinality(Issued("Rcpt")) + 1] ELSE <<>>]

\* ------------------------------------------------------------------ startup

\* Mutant: a failed validation ends the process whether Tor is required or not.
MainStartupAlwaysFatal ==
    /\ pc = "main"
    /\ IF ~cfg.Tor.nil /\ cfg.Tor.Enabled
       THEN \E proxyUp \in BOOLEAN :
                LET v == validateTorConfig(proxyUp)
                IN  IF v.err # "nil"
                    THEN /\ proxyCheck' = "failed"
                         /\ timers' = timers
                         /\ pc' = "exited"
                    ELSE /\ proxyCheck' = IF v.probed THEN "ok" ELSE "skipped"
                         /\ timers' = startCircuitResetTimer(timers)
                         /\ pc' = "idle"
       ELSE /\ proxyCheck' = "skipped"
            /\ timers' = timers
            /\ pc' = "idle"
    /\ UNCHANGED <<cfg, dnsAnswer, firings, callbacks, frameVars, smtpVars>>

\* main, from the validation of the Tor configuration to the work phase.
MainStartup ==
    /\ pc = "main"
    /\ IF ~cfg.Tor.nil /\ cfg.Tor.Enabled
       THEN \E proxyUp \in BOOLEAN :
                LET v == validateTorConfig(proxyUp)
                IN  IF v.err # "nil"
                    THEN /\ proxyCheck' = "failed"
                         /\ timers' = timers
                         /\ pc' = IF cfg.Tor.Required THEN "exited" ELSE "idle"
                    ELSE /\ proxyCheck' = IF v.probed THEN "ok" ELSE "skipped"
                         /\ timers' = startCircuitResetTimer(timers)
                         /\ pc' = "idle"
       ELSE /\ proxyCheck' = "skipped"
            /\ timers' = timers
            /\ pc' = "idle"
    /\ UNCHANGED <<cfg, dnsAnswer, firings, callbacks, frameVars, smtpVars>>

\* A circuit reset timer expires: the runtime takes it off and starts its
\* callback in a goroutine of its own, which writes the log.  The timer is
\* no longer pending and the next one is not armed yet.
TimerFire ==
    /\ pc \notin {"main", "exited", "panic", "ended"}
    /\ timers > 0
    /\ firings' = (firings + 1) % (MaxFirings + 1)
    /\ timers' = timers - 1
    /\ callbacks' = callbacks + 1
    /\ UNCHANGED <<cfg, dnsAnswer, pc, proxyCheck, frameVars, smtpVars>>

\* Mutant: the callback ends without arming the next timer.
TimerCallbackForgets ==
    /\ pc \notin {"main", "exited", "panic", "ended"}
    /\ callbacks > 0
    /\ callbacks' = callbacks - 1
    /\ UNCHANGED <<cfg, dnsAnswer, pc, proxyCheck, timers, firings, frameVars, smtpVars>>

\* The callback goes on after the log: it calls startCircuitResetTimer,
\* which arms the next timer, and ends.  The rest of the program may have
\* taken steps since the expiry.
TimerCallback ==
    /\ pc \notin {"main", "exited", "panic", "ended"}
    /\ callbacks > 0
    /\ callbacks' = callbacks - 1
    /\ timers' = startCircuitResetTimer(timers)
    /\ UNCHANGED <<cfg, dnsAnswer, pc, proxyCheck, firings, frameVars, smtpVars>>

\* ------------------------------------------------------------------ pool

\* mailPoolFile returns before any sink is called, m being the message.
Returns(m, flag, e) ==
    /\ pc' = "returned"
    /\ msg' = m
    /\ delFlag' = flag
    /\ err' = e
    /\ sendTo' = <<>>
    /\ payload' = NoPayload

\* mailPoolFile(filename), f being the file: up to the call of mailBytes.
MailPoolFile(f) ==
    /\ pc = "idle"
    /\ caller' = "mailPoolFile"
    /\ sinks' = <<>>
    /\ IF ~f.open
       THEN Returns(f, FALSE, "open")
       ELSE IF ~f.parse
       THEN Returns(f, TRUE, "read")
       ELSE IF f.pooled.kind = "bad"
       THEN Returns(f, FALSE, "date")
       ELSE IF f.pooled.kind = "date" /\ Expired(f.pooled.age)
       THEN Returns(f, TRUE, "nil")
       ELSE LET to == headToAddy(f.to) \o headToAddy(f.cc)
            IN  IF Len(to) = 0
                THEN Returns(f, TRUE, "no recipients")
                ELSE /\ pc' = "mailBytes"
                     /\ msg' = f
                     /\ delFlag' = FALSE
                     /\ err' = "nil"
                     /\ sendTo' = to
                     /\ payload' = assemble(PoolMessage(f))
    /\ UNCHANGED <<cfg, dnsAnswer, startupVars, smtpVars>>

\* mailBytes(payload, sendTo) called by the rest of the remailer.
CallMailBytes(to) ==
    /\ pc = "idle"
    /\ caller' = "mailBytes"
    /\ sendTo' = to
    /\ payload' = DirectPayload
    /\ pc' = "mailBytes"
    /\ UNCHANGED <<cfg, dnsAnswer, startupVars, msg, delFlag, err, sinks, smtpVars>>

\* Mutant: the legacy sendmail whatever the Tor configuration is.
sendmailTorAlwaysLegacy == "sendmail"

\* sendmailTor: the legacy sendmail unless Tor is enabled, the SMTP session
\* when it is.
sendmailTor ==
    IF cfg.Tor.nil \/ ~cfg.Tor.Enabled THEN "sendmail" ELSE "smtp"

\* The sink mailBytes hands the payload to.
SinkOf ==
    IF cfg.Mail.Outfile THEN "outfile"
    ELSE IF cfg.Mail.Pipe # "" THEN "pipe"
    ELSE IF cfg.Mail.Sendmail THEN sendmailTor
    ELSE "smtp"

\* What each sink other than the SMTP session can answer.
SinkErrors(sink) ==
    CASE sink = "outfile" -> {"nil", "create", "write"}
      [] sink = "pipe" -> {"nil", "exec"}
      [] sink = "sendmail" -> {"nil", "sendmail"}

\* execSend indexes the first field of the command without a test: with
\* no field the process dies (index out of range) before anything runs.
ExecSendPanics == Fields(cfg.Mail.Pipe) = <<>>

\* mailBytes: the file drop, the pipe (execSend) and the legacy sendmail run
\* to their end; the SMTP session starts (also from sendmailTor).
MailBytes ==
    /\ pc = "mailBytes"
    /\ sinks' = Append(sinks, SinkOf)
    /\ IF SinkOf = "smtp"
       THEN /\ pc' = "smtpRelay"
            /\ UNCHANGED <<err, dials>>
       ELSE IF SinkOf = "pipe" /\ ExecSendPanics
       THEN /\ pc' = "panic"
            /\ UNCHANGED <<err, dials>>
       ELSE /\ pc' = "returned"
            /\ err' \in SinkErrors(SinkOf)
            /\ dials' = IF SinkOf = "sendmail"
                        THEN Append(dials, [via |-> "direct", host |-> cfg.Mail.SMTPRelay,
                                            port |-> cfg.Mail.SMTPPort])
                        ELSE dials
    /\ UNCHANGED <<cfg, dnsAnswer, startupVars, caller, msg, sendTo, delFlag, payload>>
    /\ UNCHANGED <<useTor, relay, port, dnsQueries, log, conn, ext>>

\* ------------------------------------------------------------------ smtpRelay

\* smtpRelay up to the dial: the transport decision, the MX lookup (dns
\* being what DNS answers) and the timeout, read through cfg.Tor.
SmtpRelayBegin ==
    /\ pc = "smtpRelay"
    /\ LET tor == BatchUsesTor(sendTo)
           lookup == WantsMxLookup(sendTo, tor)
       IN  \E dns \in IF lookup THEN DnsOutcomes ELSE {[err |-> TRUE, records |-> <<>>]} :
               LET mx == IF lookup THEN mxLookup(sendTo[1], dns)
                         ELSE [relay |-> <<>>, err |-> "none", queried |-> <<>>]
               IN  /\ useTor' = tor
                   /\ relay' = IF mx.err = "nil" THEN mx.relay ELSE cfg.Mail.SMTPRelay
                   /\ port' = IF mx.err = "nil" THEN 25 ELSE cfg.Mail.SMTPPort
                   /\ dnsQueries' = dnsQueries \o mx.queried
    /\ pc' = IF cfg.Tor.nil THEN "panic" ELSE "dial"
    /\ UNCHANGED <<cfg, dnsAnswer, startupVars, frameVars, dials, log, conn, ext>>

\* Mutant: a failed dial through Tor is retried as a direct dial, and the
\* delivery goes on or returns by the result of the second dial.
SmtpDialDowngrades ==
    /\ pc = "dial"
    /\ \E ok \in BOOLEAN, again \in BOOLEAN :
           LET first == [via |-> IF useTor THEN "tor" ELSE "direct",
                         host |-> relay, port |-> port]
               second == [via |-> "direct", host |-> relay, port |-> port]
           IN  IF ok
               THEN /\ dials' = Append(dials, first)
                    /\ pc' = "client" /\ conn' = "open" /\ err' = err
               ELSE IF useTor /\ again
               THEN /\ dials' = dials \o <<first, second>>
                    /\ pc' = "client" /\ conn' = "open" /\ err' = err
               ELSE IF useTor
               THEN /\ dials' = dials \o <<first, second>>
                    /\ pc' = "returned" /\ conn' = conn /\ err' = "dial"
               ELSE /\ dials' = Append(dials, first)
                    /\ pc' = "returned" /\ conn' = conn /\ err' = "dial"
    /\ UNCHANGED <<cfg, dnsAnswer, startupVars, caller, msg, sendTo, delFlag, sinks, payload>>
    /\ UNCHANGED <<useTor, relay, port, dnsQueries, log, ext>>

\* The connection: dialThroughTor or net.DialTimeout.
SmtpDial ==
    /\ pc = "dial"
    /\ dials' = Append(dials, [via |-> IF useTor THEN "tor" ELSE "direct",
                               host |-> relay, port |-> port])
    /\ \E ok \in BOOLEAN :
           IF ok
           THEN pc' = "client" /\ conn' = "open" /\ err' = err
           ELSE pc' = "returned" /\ conn' = conn /\ err' = "dial"
    /\ UNCHANGED <<cfg, dnsAnswer, startupVars, caller, msg, sendTo, delFlag, sinks, payload>>
    /\ UNCHANGED <<useTor, relay, port, dnsQueries, log, ext>>

\* smtp.NewClient reads the greeting; when it fails it closes the
\* connection and there is no client to quit.
SmtpNewClient ==
    /\ pc = "client"
    /\ \E ok \in BOOLEAN :
           /\ log' = Append(log, Call("NewClient", ok))
           /\ IF ok
              THEN pc' = "starttls" /\ conn' = conn /\ err' = err
              ELSE pc' = "returned" /\ conn' = "closed" /\ err' = "client"
    /\ UNCHANGED <<cfg, dnsAnswer, startupVars, caller, msg, sendTo, delFlag, sinks, payload>>
    /\ UNCHANGED <<useTor, relay, port, dnsQueries, dials, ext>>

\* A call on the client that succeeds: the session goes on at next.
Proceed(op, next) ==
    /\ log' = Append(log, Call(op, TRUE))
    /\ pc' = next
    /\ UNCHANGED <<err, conn>>

\* Mutant: the error is returned and the client is not quit.
AbortWithoutQuit(op, e) ==
    /\ log' = Append(log, Call(op, FALSE))
    /\ conn' = conn
    /\ pc' = "returned"
    /\ err' = e

\* A call on the client that fails: smtpRelay returns the error and the
\* deferred client.Quit() runs; Quit closes the connection when the server
\* accepts it.
Abort(op, e) ==
    \E quitOk \in BOOLEAN :
        /\ log' = log \o <<Call(op, FALSE), Call("Quit", quitOk)>>
        /\ conn' = IF quitOk THEN "closed" ELSE conn
        /\ pc' = "returned"
        /\ err' = e

\* STARTTLS, offered telling whether the server advertises it.
SmtpStartTLS ==
    /\ pc = "starttls"
    /\ \E offered \in BOOLEAN, ok \in BOOLEAN :
           /\ ext' = [ext EXCEPT !.tls = IF offered THEN "yes" ELSE "no"]
           /\ IF offered /\ shouldUseTLS(relay)
              THEN IF ok THEN Proceed("StartTLS", "auth") ELSE Abort("StartTLS", "starttls")
              ELSE pc' = "auth" /\ UNCHANGED <<log, err, conn>>
    /\ UNCHANGED <<cfg, dnsAnswer, startupVars, caller, msg, sendTo, delFlag, sinks, payload>>
    /\ UNCHANGED <<useTor, relay, port, dnsQueries, dials>>

\* client.Auth failed after it had ended the session itself: when the
\* mechanism refuses to start or to go on, net/smtp sends QUIT and closes
\* the connection inside Auth, and the deferred client.Quit() of smtpRelay
\* then fails on the closed connection.
AbortClosedByAuth ==
    /\ log' = log \o <<Call("Auth", FALSE), Call("Quit", FALSE)>>
    /\ conn' = "closed"
    /\ pc' = "returned"
    /\ err' = "auth"

\* AUTH, offered telling whether the server advertises it.  A failed
\* client.Auth either leaves the session to the deferred Quit (the server
\* refused the command) or has closed it already.
SmtpAuth ==
    /\ pc = "auth"
    /\ \E offered \in BOOLEAN, ok \in BOOLEAN :
           /\ ext' = [ext EXCEPT !.auth = IF offered THEN "yes" ELSE "no"]
           /\ IF offered /\ HasCredentials
              THEN IF ok THEN Proceed("Auth", "mail")
                   ELSE Abort("Auth", "auth") \/ AbortClosedByAuth
              ELSE pc' = "mail" /\ UNCHANGED <<log, err, conn>>
    /\ UNCHANGED <<cfg, dnsAnswer, startupVars, caller, msg, sendTo, delFlag, sinks, payload>>
    /\ UNCHANGED <<useTor, relay, port, dnsQueries, dials>>

\* Where the loop over the recipients stands after n RCPT were accepted.
AfterRcpt(n) == IF n < Len(sendTo) THEN "rcpt" ELSE "data"

\* MAIL FROM
SmtpMail ==
    /\ pc = "mail"
    /\ \E ok \in BOOLEAN :
           IF ok THEN Proceed("Mail", AfterRcpt(0)) ELSE Abort("Mail", "mail")
    /\ UNCHANGED <<cfg, dnsAnswer, startupVars, caller, msg, sendTo, delFlag, sinks, payload>>
    /\ UNCHANGED <<useTor, relay, port, dnsQueries, dials, ext>>

\* Mutant: a rejected recipient is skipped and the loop goes on.
SmtpRcptSkipsRejected ==
    /\ pc = "rcpt"
    /\ \E ok \in BOOLEAN :
           /\ log' = Append(log, Call("Rcpt", ok))
           /\ pc' = AfterRcpt(Cardinality(Issued("Rcpt")) + 1)
           /\ UNCHANGED <<err, conn>>
    /\ UNCHANGED <<cfg, dnsAnswer, startupVars, caller, msg, sendTo, delFlag, sinks, payload>>
    /\ UNCHANGED <<useTor, relay, port, dnsQueries, dials, ext>>

\* RCPT TO of the next recipient.
SmtpRcpt ==
    /\ pc = "rcpt"
    /\ \E ok \in BOOLEAN :
           IF ok THEN Proceed("Rcpt", AfterRcpt(Cardinality(Issued("Rcpt")) + 1))
           ELSE Abort("Rcpt", "rcpt")
    /\ UNCHANGED <<cfg, dnsAnswer, startupVars, caller, msg, sendTo, delFlag, sinks, payload>>
    /\ UNCHANGED <<useTor, relay, port, dnsQueries, dials, ext>>

\* DATA
SmtpData ==
    /\ pc = "data"
    /\ \E ok \in BOOLEAN :
           IF ok THEN Proceed("Data", "write") ELSE Abort("Data", "data")
    /\ UNCHANGED <<cfg, dnsAnswer, startupVars, caller, msg, sendTo, delFlag, sinks, payload>>
    /\ UNCHANGED <<useTor, relay, port, dnsQueries, dials, ext>>

\* The payload is written.
SmtpWrite ==
    /\ pc = "write"
    /\ \E ok \in BOOLEAN :
           IF ok THEN Proceed("Write", "close") ELSE Abort("Write", "write")
    /\ UNCHANGED <<cfg, dnsAnswer, startupVars, caller, msg, sendTo, delFlag, sinks, payload>>
    /\ UNCHANGED <<useTor, relay, port, dnsQueries, dials, ext>>

\* The data is closed; on success smtpRelay returns nil and the deferred
\* client.Quit() runs.
SmtpClose ==
    /\ pc = "close"
    /\ \E ok \in BOOLEAN :
           IF ok
           THEN \E quitOk \in BOOLEAN :
                    /\ log' = log \o <<Call("Close", TRUE), Call("Quit", quitOk)>>
                    /\ conn' = IF quitOk THEN "closed" ELSE conn
                    /\ pc' = "returned"
                    /\ err' = "nil"
           ELSE Abort("Close", "close")
    /\ UNCHANGED <<cfg, dnsAnswer, startupVars, caller, msg, sendTo, delFlag, sinks, payload>>
    /\ UNCHANGED <<useTor, relay, port, dnsQueries, dials, ext>>

\* The caller takes the result; the next delivery can start.
Resume ==
    /\ pc = "returned"
    /\ pc' = "idle"
    /\ caller' = "none" /\ msg' = NoMsg /\ sendTo' = <<>>
    /\ delFlag' = FALSE /\ err' = "nil" /\ sinks' = <<>> /\ payload' = NoPayload
    /\ useTor' = FALSE /\ relay' = <<>> /\ port' = 0
    /\ dnsQueries' = <<>> /\ dials' = <<>> /\ log' = <<>>
    /\ conn' = "none" /\ ext' = NoExt
    /\ UNCHANGED <<cfg, dnsAnswer, startupVars>>

\* The work of main is over (the one-shot work of --client, --stdin,
\* --dummy, --refresh or --send, a server loop that returned, or no work
\* flag at all) and main returns: the process ends, with whatever timer
\* is pending, and no timer fires any more.  A server that loops on never
\* takes this step.
MainReturn ==
    /\ pc = "idle"
    /\ pc' = "ended"
    /\ UNCHANGED <<cfg, dnsAnswer, startupVars, frameVars, smtpVars>>

Next ==
    \/ MainStartup
    \/ MainReturn
    \/ TimerFire
    \/ TimerCallback
    \/ \E f \in PoolFiles : MailPoolFile(f)
    \/ \E to \in DirectLists : CallMailBytes(to)
    \/ MailBytes
    \/ SmtpRelayBegin
    \/ SmtpDial
    \/ SmtpNewClient
    \/ SmtpStartTLS
    \/ SmtpAuth
    \/ SmtpMail
    \/ SmtpRcpt
    \/ SmtpData
    \/ SmtpWrite
    \/ SmtpClose
    \/ Resume

Spec == Init /\ [][Next]_vars

\* The program with every Tor configuration and the SMTP session as the
\* sink, and a runtime that, as long as the process runs, fires a pending
\* timer and schedules its callback in the end.
TimerConfigs ==
    {c \in RoutingConfigs :
         /\ ~c.Mail.ForceTorSMTP /\ ~c.Mail.OnionRelay /\ ~c.Mail.MXRelay
         /\ ~c.Mail.Outfile /\ c.Mail.Pipe = PipeNone /\ ~c.Mail.Sendmail
         /\ c.Mail.SMTPRelay = RelayPlain}

InitLive ==
    /\ cfg \in TimerConfigs
    /\ pc = "main"
    /\ proxyCheck = "none"
    /\ timers = 0
    /\ firings = 0
    /\ callbacks = 0
    /\ FrameIdle
    /\ SmtpIdle
    /\ dnsAnswer = <<>>

SpecLive == InitLive /\ [][Next]_vars /\ WF_vars(TimerFire) /\ WF_vars(TimerCallback)

\* ------------------------------------------------------------------ direct calls

\* The transport policy and the host resolver called on their own, on every
\* address and every answer of DNS.
InitPure ==
    /\ cfg \in Configs
    /\ pc = "call"
    /\ proxyCheck = "none"
    /\ timers = 0
    /\ firings = 0
    /\ callbacks = 0
    /\ FrameIdle
    /\ SmtpIdle
    /\ dnsAnswer = <<>>

\* shouldUseTor(address): the argument is kept in sendTo, the answer in useTor.
CallShouldUseTor(address) ==
    /\ pc = "call"
    /\ pc' = "shouldUseTor"
    /\ sendTo' = <<address>>
    /\ useTor' = shouldUseTor(address)
    /\ UNCHANGED <<cfg, dnsAnswer, startupVars, caller, msg, delFlag, err, sinks, payload>>
    /\ UNCHANGED <<relay, port, dnsQueries, dials, log, conn, ext>>

\* mxLookup(email): the argument is kept in sendTo, the relay, the error and
\* the domains asked of DNS in relay, err and dnsQueries.
CallMxLookup(email, dns) ==
    /\ pc = "call"
    /\ pc' = "mxLookup"
    /\ sendTo' = <<email>>
    /\ LET r == mxLookup(email, dns)
       IN  /\ relay' = r.relay
           /\ err' = r.err
           /\ dnsQueries' = r.queried
    /\ dnsAnswer' = <<dns>>
    /\ UNCHANGED <<cfg, startupVars, caller, msg, delFlag, sinks, payload>>
    /\ UNCHANGED <<useTor, port, dials, log, conn, ext>>

\* assemble(msg) of the message read from f: the message is kept in msg,
\* the bytes in payload.
CallAssemble(f) ==
    /\ pc = "call"
    /\ pc' = "assemble"
    /\ msg' = f
    /\ payload' = assemble(ReadMessage(f))
    /\ UNCHANGED <<cfg, dnsAnswer, startupVars, caller, sendTo, delFlag, err, sinks, smtpVars>>

\* startCircuitResetTimer() called once more, whatever timer is pending.
CallStartCircuitResetTimer ==
    /\ pc = "call"
    /\ timers + callbacks < MaxStarts
    /\ timers' = startCircuitResetTimer(timers)
    /\ UNCHANGED <<cfg, dnsAnswer, pc, proxyCheck, firings, callbacks, frameVars, smtpVars>>

\* The answer is taken; the next call can be made.
CallReturn ==
    /\ pc \in {"shouldUseTor", "mxLookup", "assemble"}
    /\ pc' = "call"
    /\ sendTo' = <<>> /\ useTor' = FALSE /\ relay' = <<>>
    /\ err' = "nil" /\ dnsQueries' = <<>> /\ dnsAnswer' = <<>>
    /\ msg' = NoMsg /\ payload' = NoPayload
    /\ UNCHANGED <<cfg, startupVars, caller, delFlag, sinks>>
    /\ UNCHANGED <<port, dials, log, conn, ext>>

NextPure ==
    \/ \E a \in Addresses : CallShouldUseTor(a)
    \/ \E a \in Addresses, dns \in DnsOutcomes : CallMxLookup(a, dns)
    \/ \E f \in AssembleFiles : CallAssemble(f)
    \/ CallStartCircuitResetTimer
    \/ TimerFire
    \/ TimerCallback
    \/ CallReturn

SpecPure == InitPure /\ [][NextPure]_vars

\* ------------------------------------------------------------------ claims

\* The recipients mailPoolFile finds in To and Cc of a message.
RecipientCount(m) ==
    (IF m.to.kind = "list" THEN Len(m.to.addrs) ELSE 0)
        + (IF m.cc.kind = "list" THEN Len(m.cc.addrs) ELSE 0)

\* The message carries a pooled date older than the maximum pool age.
TooOld(m) == m.open /\ m.parse /\ m.pooled.kind = "date" /\ m.pooled.age > PoolMaxAge

\* The message carries a pooled date that cannot be parsed.
DateUnreadable(m) == m.open /\ m.parse /\ m.pooled.kind = "bad"

\* Some recipient of the delivery is a hidden-service address by the test
\* of the code: strings.Contains(address, ".onion"), which the addresses
\* with the .onion suffix pass.
OnionRecipient == \E i \in 1..Len(sendTo) : Contains(sendTo[i], ".onion")

\* C1: a pool entry whose pooled date is more than the maximum pool age in
\* the past makes mailPoolFile return delete=true, and no sink (file, pipe,
\* legacy sendmail, SMTP) is called for it: nothing is dialed, asked of DNS
\* or said to a server.
C1_ExpiredIsDeletedUnsent ==
    (caller = "mailPoolFile" /\ TooOld(msg))
        => /\ pc = "returned"
           /\ delFlag = TRUE
           /\ sinks = <<>>
           /\ dials = <<>>
           /\ dnsQueries = <<>>
           /\ log = <<>>

\* An entry one day too old, with recipients, under a configuration that
\* would have mailed it through the SMTP session, was refused.
C1_Witness ==
    /\ pc = "returned"
    /\ caller = "mailPoolFile"
    /\ msg.pooled = DateAged(PoolMaxAge + 1)
    /\ RecipientCount(msg) > 0
    /\ SinkOf = "smtp"
    /\ delFlag = TRUE

\* C2: with Tor enabled and a recipient with the hidden-service suffix,
\* every connection of the delivery is dialed through the SOCKS proxy,
\* whatever the force-proxy, onion-relay, MX-relay and legacy-sendmail flags
\* are; the legacy sendmail, which dials directly, is not called.
C2_OnionRecipientDialsThroughTor ==
    (TorEnabled /\ OnionRecipient)
        => /\ \A k \in 1..Len(dials) : dials[k].via = "tor"
           /\ \A k \in 1..Len(sinks) : sinks[k] # "sendmail"

\* A delivery to a plain and a hidden-service recipient dialed through Tor
\* with the legacy sendmail and the MX relay set and neither the force flag
\* nor the onion relay.
C2_Witness ==
    /\ TorEnabled
    /\ OnionRecipient
    /\ \E i \in 1..Len(sendTo) : ~Contains(sendTo[i], ".onion")
    /\ cfg.Mail.Sendmail /\ cfg.Mail.MXRelay
    /\ ~cfg.Mail.ForceTorSMTP /\ ~cfg.Mail.OnionRelay
    /\ Len(dials) = 1
    /\ dials[1].via = "tor"

\* C3: mailPoolFile returns delete=true exactly when the file is no
\* message, when the entry is older than the maximum pool age, or when To
\* and Cc give no recipient; it returns delete=false when the file cannot
\* be opened, when the pooled date cannot be parsed and after every outcome
\* of a sink; and nothing is sent when the pooled date cannot be parsed.
C3_DeleteExactlyWhenUndeliverable ==
    (caller = "mailPoolFile")
        => /\ (pc = "returned")
                => (delFlag <=>
                       /\ msg.open
                       /\ \/ ~msg.parse
                          \/ /\ ~DateUnreadable(msg)
                             /\ (TooOld(msg) \/ RecipientCount(msg) = 0))
           /\ (pc # "returned") => (delFlag = FALSE)
           /\ DateUnreadable(msg)
                => (sinks = <<>> /\ dials = <<>> /\ dnsQueries = <<>> /\ log = <<>>)

\* A delivery that failed at the dial returned delete=false.
C3_Witness ==
    /\ pc = "returned"
    /\ caller = "mailPoolFile"
    /\ err = "dial"
    /\ delFlag = FALSE

\* C4: shouldUseTor(address) is true exactly when Tor is configured and
\* enabled and the address contains ".onion" or ForceTorSMTP is set; with
\* Tor disabled or not configured it is false for every address.
C4_PolicyIsEnabledAndOnionOrForce ==
    (pc = "shouldUseTor")
        => /\ useTor <=>
                  /\ ~cfg.Tor.nil
                  /\ cfg.Tor.Enabled
                  /\ (Contains(sendTo[1], ".onion") \/ cfg.Mail.ForceTorSMTP)
           /\ (cfg.Tor.nil \/ ~cfg.Tor.Enabled) => ~useTor

\* The policy answered true for an address that holds ".onion" before the
\* "@", without the force flag.
C4_Witness ==
    /\ pc = "shouldUseTor"
    /\ sendTo = <<AddrOnionLocal>>
    /\ ~cfg.Mail.ForceTorSMTP
    /\ useTor = TRUE

\* smtpRelay was entered for the delivery.
InSmtpRelay == Len(sinks) >= 1 /\ sinks[Len(sinks)] = "smtp" /\ pc # "smtpRelay"

\* smtpRelay is over: it returned, or the process died in it.
SmtpRelayOver == InSmtpRelay /\ pc \in {"returned", "panic"}

\* C5: an SMTP delivery takes one transport decision for the batch and
\* dials exactly one connection, through the proxy exactly when some
\* recipient satisfies the transport policy, wherever it stands in the list.
C5_OneDialByBatchPolicy ==
    InSmtpRelay
        => /\ useTor <=> (\E i \in 1..Len(sendTo) : shouldUseTor(sendTo[i]))
           /\ Len(dials) <= 1
           /\ \A k \in 1..Len(dials) : (dials[k].via = "tor") <=> useTor
           /\ SmtpRelayOver => Len(dials) = 1

\* The place of a call in the order of the session.
Rank(op) ==
    CASE op = "NewClient" -> 1
      [] op = "StartTLS" -> 2
      [] op = "Auth" -> 3
      [] op = "Mail" -> 4
      [] op = "Rcpt" -> 5
      [] op = "Data" -> 6
      [] op = "Write" -> 7
      [] op = "Close" -> 8
      [] op = "Quit" -> 9

\* The calls of op that succeeded.
Succeeded(op) == {i \in Issued(op) : log[i].ok}

\* C6: the calls of a session come in the order connect, STARTTLS, AUTH,
\* MAIL FROM, RCPT TO (one per recipient, in the order of the list), DATA,
\* write, close, QUIT; after a call that failed only QUIT follows; DATA
\* comes after every recipient was accepted; and where STARTTLS is offered,
\* UseTLS is set and the relay is no hidden-service host, the TLS upgrade
\* succeeded before AUTH or any later call.  A hidden-service host is one
\* whose name ends in ".onion", with or without the root dot.
C6_SessionOrder ==
    /\ (log # <<>>) => (Len(dials) = 1 /\ conn # "none" /\ log[1].op = "NewClient")
    /\ \A i, j \in 1..Len(log) :
           (i < j) => \/ Rank(log[i].op) < Rank(log[j].op)
                      \/ (log[i].op = "Rcpt" /\ log[j].op = "Rcpt")
    /\ \A i \in 1..Len(log) :
           (~log[i].ok /\ i < Len(log)) => log[i + 1].op = "Quit"
    /\ \A i \in 1..Len(log) :
           (log[i].op = "Rcpt")
               => LET k == Cardinality({j \in Issued("Rcpt") : j <= i})
                  IN  k <= Len(sendTo) /\ log[i].arg = sendTo[k]
    /\ (Issued("Rcpt") # {}) => (Succeeded("Mail") # {})
    /\ (Issued("Data") # {})
           => /\ Succeeded("Mail") # {}
              /\ Cardinality(Succeeded("Rcpt")) = Len(sendTo)
    /\ (/\ ext.tls = "yes"
        /\ cfg.Mail.UseTLS
        /\ ~(HasSuffix(relay, ".onion") \/ HasSuffixOnionDot(relay)))
           => \A i \in 1..Len(log) :
                  (Rank(log[i].op) \in 3..8)
                      => \E j \in Succeeded("StartTLS") : j < i

\* C7: when the server rejects a recipient smtpRelay returns the error, no
\* further RCPT TO and no DATA is issued; the payload is transferred only
\* after every recipient of the batch was accepted.
C7_RejectedRecipientAborts ==
    /\ \A i \in 1..Len(log) :
           (log[i].op = "Rcpt" /\ ~log[i].ok)
               => /\ pc = "returned"
                  /\ err = "rcpt"
                  /\ \A j \in 1..Len(log) : (j > i) => log[j].op = "Quit"
    /\ (Issued("Data") # {} \/ Issued("Write") # {})
           => \A k \in 1..Len(sendTo) :
                  \E i \in Succeeded("Rcpt") : log[i].arg = sendTo[k]
    /\ (Issued("Data") # {} \/ Issued("Write") # {})
           => Cardinality(Succeeded("Rcpt")) = Len(sendTo)

\* The first of two recipients was rejected: one RCPT TO was issued.
C7_Witness ==
    /\ pc = "returned"
    /\ Len(sendTo) = 2
    /\ Cardinality(Issued("Rcpt")) = 1
    /\ Succeeded("Rcpt") = {}
    /\ err = "rcpt"

\* C8 as claimed: every delivery that opened a connection ends the session
\* with QUIT before smtpRelay returns, on the success path and on every
\* error path after the dial, the failure of the greeting included.
C8_QuitOnEveryPathAfterDial ==
    (pc = "returned" /\ InSmtpRelay /\ conn # "none")
        => (log # <<>> /\ log[Len(log)].op = "Quit")

\* C8 amended: every delivery whose SMTP client was set up calls QUIT, once
\* and last, before smtpRelay returns, on the success path and on every
\* error path after the set-up (STARTTLS, AUTH, MAIL, RCPT, DATA, write,
\* close); when the set-up of the client fails no QUIT is issued and the
\* connection was closed by the set-up; QUIT is not called before the
\* return, and the connection is closed once QUIT is accepted.
C8_QuitAfterClientSetup ==
    /\ (pc = "returned" /\ Succeeded("NewClient") # {})
           => /\ log[Len(log)].op = "Quit"
              /\ Cardinality(Issued("Quit")) = 1
    /\ (Issued("NewClient") # {} /\ Succeeded("NewClient") = {})
           => /\ pc = "returned"
              /\ Issued("Quit") = {}
              /\ conn = "closed"
    /\ (Issued("Quit") # {}) => pc = "returned"
    /\ (Succeeded("Quit") # {}) => conn = "closed"

\* The write of the payload failed and the client was quit.
C8_Witness ==
    /\ pc = "returned"
    /\ InSmtpRelay
    /\ ~(\E i \in Issued("Write") : log[i].ok)
    /\ Issued("Write") # {}
    /\ log[Len(log)].op = "Quit"
    /\ conn = "closed"

\* C9: for an address with one "@" whose domain ends in ".onion", mxLookup
\* returns the domain, no error, and asks nothing of DNS, with the onion
\* relay set or not.
C9_OnionDomainIsItsOwnRelay ==
    (pc = "mxLookup")
        => LET a == sendTo[1]
           IN  (Cardinality(AtPositions(a)) = 1 /\ a[Len(a)] = ".onion")
                   => /\ relay = SubSeq(a, (CHOOSE i \in AtPositions(a) : TRUE) + 1, Len(a))
                      /\ err = "nil"
                      /\ dnsQueries = <<>>

\* mxLookup answered for u@h.onion with the onion relay off.
C9_Witness ==
    /\ pc = "mxLookup"
    /\ sendTo = <<AddrOnion>>
    /\ ~cfg.Mail.OnionRelay
    /\ relay = <<"h", ".onion">>
    /\ dnsQueries = <<>>

\* C10: with Tor enabled the proxy is probed at startup; when the probe
\* fails the process exits, before any delivery, if Tor is required, and
\* goes on to the work phase if it is not; with Tor disabled or not
\* configured nothing is probed and the process goes on to the work phase.
C10_StartupValidation ==
    /\ (pc = "main") => (proxyCheck = "none" /\ FrameIdle /\ SmtpIdle)
    /\ (pc # "main")
           => /\ TorEnabled => proxyCheck \in {"ok", "failed"}
              /\ ~TorEnabled => proxyCheck = "skipped"
              /\ (pc = "exited") <=> (proxyCheck = "failed" /\ cfg.Tor.Required)
    /\ (pc = "exited") => (FrameIdle /\ SmtpIdle)

\* After a failed probe with Tor not required a delivery was made.
C10_Witness ==
    /\ proxyCheck = "failed"
    /\ ~cfg.Tor.Required
    /\ pc = "returned"
    /\ sinks # <<>>

\* C11: starting the circuit reset timer is idempotent: whatever number of
\* times startCircuitResetTimer is called, at most one timer is pending;
\* with Tor disabled or not configured, or no positive interval, none is.
C11_AtMostOneTimerPending ==
    /\ timers <= 1
    /\ (~TorEnabled \/ cfg.Tor.CircuitReset <= 0) => timers = 0

\* The payload holds a header line that assemble's test takes for an
\* internal one: strings.HasPrefix(name, "Yamn-"), on the name as written.
HoldsInternalHeader(p) == \E l \in p.lines : HasPrefix(l.name, "Yamn-")

\* C12: the payload mailPoolFile hands to mailBytes, and so to any sink,
\* holds no header whose name starts with Yamn-: neither the pooled date
\* nor any other internal header of the file, in whatever letter case the
\* file spells the prefix; it holds the Date, Message-Id and From headers
\* mailPoolFile sets.
C12_NoInternalHeaderInPayload ==
    (caller = "mailPoolFile")
        => /\ ~HoldsInternalHeader(payload)
           /\ \A l \in payload.lines : l.name[1] \notin {"Yamn-", "yamn-", "YAMN-"}
           /\ (sinks # <<>>)
                  => \A name \in {NameDate, NameMessageId, NameFrom} :
                         \E l \in payload.lines : l.name = name

\* A header as the map it is: the names with their values.
HeaderMap(h) == {h[i] : i \in 1..Len(h)}

\* C13: reading back the bytes of assemble(msg), in whatever order the
\* lines were written, gives the headers of msg, every name with all of
\* its values, without the internal headers, and the body of msg.
C13_AssembleRoundTrip ==
    (pc = "assemble")
        => /\ \A written \in Orders(payload.lines) :
                  HeaderMap(ReadHeader(written))
                      = HeaderMap(SelectSeq(ReadMessage(msg).header, Visible))
           /\ payload.body = msg.body

\* C14 as claimed: after a failed validation of the proxy with Tor not
\* required, a delivery is dialed through the proxy exactly when it has a
\* hidden-service recipient (one that contains ".onion"), and directly
\* otherwise.
C14_DirectUnlessHiddenService ==
    (proxyCheck = "failed" /\ InSmtpRelay)
        => \A k \in 1..Len(dials) :
               (dials[k].via = "tor")
                   <=> \E i \in 1..Len(sendTo) : Contains(sendTo[i], ".onion")

\* The MX record is one the loop of mxLookup skips.
Skipped(record) == ~cfg.Mail.OnionRelay /\ HasSuffixOnionDot(record)

\* C15: mxLookup returns an error exactly for an address that has not one
\* "@"; for an address with one "@" whose domain does not end in ".onion"
\* it asks DNS for the domain and returns no error whatever DNS answers:
\* the domain itself when the lookup fails or every record is skipped, the
\* first record that is not skipped otherwise.
C15_DnsNeverFatal ==
    (pc = "mxLookup")
        => LET a == sendTo[1]
               dns == dnsAnswer[1]
               domain == SubSeq(a, (CHOOSE i \in AtPositions(a) : TRUE) + 1, Len(a))
               left == SelectSeq(dns.records, LAMBDA r : ~Skipped(r))
           IN  /\ (err # "nil") <=> (Cardinality(AtPositions(a)) # 1)
               /\ (Cardinality(AtPositions(a)) = 1 /\ ~HasSuffix(domain, ".onion"))
                      => /\ dnsQueries = <<domain>>
                         /\ (dns.err \/ left = <<>>) => relay = domain
                         /\ (~dns.err /\ left # <<>>) => relay = left[1]

\* DNS answered u@x.com with one hidden-service MX record, the onion relay
\* off: the domain is the relay.
C15_Witness ==
    /\ pc = "mxLookup"
    /\ sendTo = <<AddrPlain>>
    /\ dnsAnswer = <<[err |-> FALSE, records |-> <<MxOnion>>]>>
    /\ ~cfg.Mail.OnionRelay
    /\ err = "nil"
    /\ relay = <<"x.com">>

\* C16: once the server was asked about STARTTLS, STARTTLS is issued
\* exactly when the server advertises it, UseTLS is set, and it is not so
\* that the relay is a hidden-service host with DisableTLSOnion set; when
\* STARTTLS fails neither AUTH nor MAIL FROM is issued.  A hidden-service
\* host is one whose name ends in ".onion", with or without the root dot.
C16_StartTLSUnlessOnionRelay ==
    /\ (ext.tls # "unasked")
           => (Issued("StartTLS") # {}
                   <=> /\ ext.tls = "yes"
                       /\ cfg.Mail.UseTLS
                       /\ ~(/\ HasSuffix(relay, ".onion") \/ HasSuffixOnionDot(relay)
                            /\ cfg.Mail.DisableTLSOnion))
    /\ (Issued("StartTLS") # {} /\ Succeeded("StartTLS") = {})
           => /\ pc = "returned"
              /\ err = "starttls"
              /\ Issued("Auth") = {}
              /\ Issued("Mail") = {}

\* C17: once the server was asked about AUTH, AUTH is attempted exactly
\* when the server advertises it and both a username and a password are
\* configured; when the attempt fails smtpRelay returns the error and
\* neither MAIL FROM, RCPT TO nor DATA is issued.
C17_AuthWhenOfferedWithCredentials ==
    /\ (ext.auth = "unasked") => Issued("Auth") = {}
    /\ (ext.auth # "unasked")
           => (Issued("Auth") # {}
                   <=> (ext.auth = "yes" /\ cfg.Mail.Username /\ cfg.Mail.Password))
    /\ (Issued("Auth") # {} /\ Succeeded("Auth") = {})
           => /\ pc = "returned"
              /\ err = "auth"
              /\ Issued("Mail") = {}
              /\ Issued("Rcpt") = {}
              /\ Issued("Data") = {}

\* The server refused the credentials and the delivery returned the error.
C17_Witness ==
    /\ pc = "returned"
    /\ err = "auth"
    /\ ext.auth = "yes"
    /\ Issued("Auth") # {}
    /\ Succeeded("Auth") = {}
    /\ log[Len(log)].op = "Quit"

\* mailBytes was entered and has chosen its sink.
PastMailBytes ==
    \/ pc \in {"smtpRelay", "panic", "dial", "client", "starttls", "auth", "mail",
                "rcpt", "data", "write", "close"}
    \/ (pc = "returned" /\ payload # NoPayload)

\* C18: mailBytes hands the payload to one sink: the file drop if Outfile
\* is set, else the pipe if one is configured, else the legacy sendmail
\* if Sendmail is set, else the SMTP session; with Tor enabled the legacy
\* sendmail is never called and the SMTP session takes its place.  The
\* sinks other than the SMTP session start no session.
C18_OneSinkByPriority ==
    /\ Len(sinks) <= 1
    /\ PastMailBytes <=> (Len(sinks) = 1)
    /\ (sinks # <<>>)
           => /\ sinks[1] =
                     IF cfg.Mail.Outfile THEN "outfile"
                     ELSE IF cfg.Mail.Pipe # "" THEN "pipe"
                     ELSE IF cfg.Mail.Sendmail /\ ~TorEnabled THEN "sendmail"
                     ELSE "smtp"
              /\ (sinks[1] # "smtp") => (log = <<>> /\ dnsQueries = <<>> /\ conn = "none")
              /\ (sinks[1] \in {"outfile", "pipe"}) => dials = <<>>
    /\ TorEnabled => \A k \in 1..Len(sinks) : sinks[k] # "sendmail"

\* With Tor enabled and the legacy sendmail configured the payload went
\* through the SMTP session and was delivered.
C18_Witness ==
    /\ TorEnabled
    /\ cfg.Mail.Sendmail /\ ~cfg.Mail.Outfile /\ cfg.Mail.Pipe = ""
    /\ sinks = <<"smtp">>
    /\ pc = "returned"
    /\ err = "nil"
    /\ Succeeded("Close") # {}

\* C20: DNS is asked for an MX record only when MXRelay is set, the
\* delivery has exactly one recipient, that recipient does not contain
\* ".onion" and the session is direct; so a session through Tor, a
\* hidden-service recipient or more than one recipient means no DNS query
\* and the configured relay and port.  Only after the lookup is the
\* endpoint the host mxLookup returned on port 25; the dial goes to the
\* endpoint.
C20_MxLookupOnlyForOneDirectRecipient ==
    LET lookup ==
            /\ cfg.Mail.MXRelay
            /\ Len(sendTo) = 1
            /\ ~Contains(sendTo[1], ".onion")
            /\ ~useTor
    IN  /\ Len(dnsQueries) <= 1
        /\ (dnsQueries # <<>>) => (InSmtpRelay /\ lookup /\ port = 25)
        /\ (InSmtpRelay /\ (useTor \/ OnionRecipient \/ Len(sendTo) > 1))
               => dnsQueries = <<>>
        /\ InSmtpRelay
               => /\ \/ (relay = cfg.Mail.SMTPRelay /\ port = cfg.Mail.SMTPPort)
                     \/ (lookup /\ port = 25
                             /\ relay \in {dnsQueries[1], MxPlain, MxOnion})
                  /\ \A k \in 1..Len(dials) :
                         dials[k].host = relay /\ dials[k].port = port

\* The only recipient u@x.com of a direct session was looked up and the MX
\* host dialed on port 25.
C20_Witness ==
    /\ InSmtpRelay
    /\ sendTo = <<AddrPlain>>
    /\ dnsQueries = <<<<"x.com">>>>
    /\ Len(dials) = 1
    /\ dials[1] = [via |-> "direct", host |-> MxPlain, port |-> 25]

\* C19 as claimed: after main started the timer (Tor enabled, proxy
\* validated, a positive CircuitReset) there is at every moment one timer
\* pending or one callback about to arm the next, and every firing is
\* followed by another; the callback of a firing arms exactly one next
\* timer; neither step changes anything of the delivery under way; with
\* Tor disabled or not configured, or no positive interval, no timer is
\* armed and none fires.
C19_TimerFiresAgainAndAgain ==
    /\ [](timers + callbacks <= 1)
    /\ []((pc # "main" /\ proxyCheck = "ok" /\ cfg.Tor.CircuitReset > 0)
              => timers + callbacks = 1)
    /\ []((~TorEnabled \/ cfg.Tor.CircuitReset <= 0)
              => (timers = 0 /\ callbacks = 0 /\ firings = 0))
    /\ [][(firings' # firings)
              => /\ timers = 1 /\ timers' = 0
                 /\ callbacks = 0 /\ callbacks' = 1
                 /\ UNCHANGED <<cfg, pc, proxyCheck, frameVars, smtpVars>>]_vars
    /\ [][(callbacks' < callbacks)
              => /\ timers = 0 /\ timers' = 1
                 /\ UNCHANGED <<cfg, pc, proxyCheck, firings, frameVars, smtpVars>>]_vars
    /\ \A k \in 0..MaxFirings :
           (timers + callbacks > 0 /\ firings = k) ~> (firings # k)

\* C19, amended: the same, the recurrence holding for as long as the
\* process runs: every firing is followed by another or by the end of the
\* process (main returns), and once the process has ended no timer fires
\* and no callback runs, a pending timer staying unfired.
C19_TimerFiresWhileProcessRuns ==
    /\ [](timers + callbacks <= 1)
    /\ []((pc # "main" /\ proxyCheck = "ok" /\ cfg.Tor.CircuitReset > 0)
              => timers + callbacks = 1)
    /\ []((~TorEnabled \/ cfg.Tor.CircuitReset <= 0)
              => (timers = 0 /\ callbacks = 0 /\ firings = 0))
    /\ [][(firings' # firings)
              => /\ timers = 1 /\ timers' = 0
                 /\ callbacks = 0 /\ callbacks' = 1
                 /\ pc # "ended"
                 /\ UNCHANGED <<cfg, pc, proxyCheck, frameVars, smtpVars>>]_vars
    /\ [][(callbacks' < callbacks)
              => /\ timers = 0 /\ timers' = 1
                 /\ pc # "ended"
                 /\ UNCHANGED <<cfg, pc, proxyCheck, firings, frameVars, smtpVars>>]_vars
    /\ [][(pc = "ended") => UNCHANGED vars]_vars
    /\ \A k \in 0..MaxFirings :
           (timers + callbacks > 0 /\ firings = k) ~> (firings # k \/ pc = "ended")

\* While an SMTP session was under way the timer has fired and its
\* callback has armed the next timer; the connection is still open.
C19_Witness ==
    /\ timers = 1
    /\ callbacks = 0
    /\ firings = 1
    /\ pc = "data"
    /\ conn = "open"

\* smtpRelay returned from its dial: a connection was asked for and no
\* call was made on a client.
DialFailed == InSmtpRelay /\ pc = "returned" /\ dials # <<>> /\ log = <<>>

\* C21: no silent downgrade.  A delivery dials at most once; when the
\* decision of the batch is Tor, no direct connection is ever dialed; and
\* when the dial fails (through Tor or direct) smtpRelay returns the dial
\* error with no connection open and nothing said to a server.
C21_NoSilentDowngrade ==
    /\ Len(dials) <= 1
    /\ useTor => \A k \in 1..Len(dials) : dials[k].via = "tor"
    /\ DialFailed => (err = "dial" /\ conn = "none")
    /\ (err = "dial") => (DialFailed /\ Len(dials) = 1)

\* The dial through Tor failed and smtpRelay returned the error, the only
\* dial of the delivery being the one through Tor.
C21_Witness ==
    /\ DialFailed
    /\ useTor
    /\ err = "dial"
    /\ Len(dials) = 1
    /\ dials[1].via = "tor"
    /\ conn = "none"

\* C22: with no Tor configuration at all (cfg.Tor is nil) a delivery
\* through smtpRelay goes as with Tor disabled: the policy answers false
\* for the batch, the process does not die, and once past the dial the one
\* connection asked for is a direct one.
C22_NoTorSectionIsTorDisabled ==
    (cfg.Tor.nil /\ InSmtpRelay)
        => /\ ~useTor
           /\ pc # "panic"
           /\ (pc # "dial") => (Len(dials) = 1 /\ dials[1].via = "direct")

====
